---- MODULE Spec2Model ----
(***************************************************************************)
(* Browser client of the social-feed application: the axios instance of    *)
(* lib/api.ts with its request and response interceptors (session renewal  *)
(* on 401), and the optimistic like toggle of the three components that    *)
(* render it: PostCard, PostDetailPage and LikeButton.                     *)
(*                                                                         *)
(* One item (post) is shown on the three surfaces.  The server is a black  *)
(* box: every transmission is answered by any status, or by no response.   *)
(* The JavaScript event loop runs a response's promise continuations in    *)
(* the task that delivers the response, so an action covers the code from  *)
(* one network event to the next await that suspends on the network.       *)
(***************************************************************************)
EXTENDS Integers, Sequences, FiniteSets, TLC

\* ----------------------------------------------------------------- bounds
MaxToggles == 2      \* handleLike invocations that pass the guard, all surfaces
MaxCount == 1        \* largest initial likes_count
MaxToken == 2        \* distinct access tokens the server hands out
MaxAuthOps == 2      \* login / logout / fetchUser calls of the auth store
MaxReloads == 1      \* loadPost / loadPosts calls
MaxComments == 1     \* comments created on the post

\* ------------------------------------------------------------- vocabulary
Surfaces == {"card", "detail", "button"}
\* the surfaces whose toggle goes through the axios instance `api`
ApiSurfaces == {"card", "detail"}

\* HTTP answers of the black-box server; 0 stands for "no response"
ErrorStatuses == {400, 401, 500}
Failures == ErrorStatuses \cup {0}

\* every caller of the network: the three surfaces and the operations of the
\* auth store; all but LikeButton go through the axios instance `api`
AuthOps == {"login", "logout", "fetchUser"}
Callers == Surfaces \cup AuthOps
Requests == ApiSurfaces \cup AuthOps

\* no answer has arrived for the transmission on the wire
NoAnswer == -1

NoToken == 0
Tokens == 1..MaxToken

\* the auth store's user: null, or the User that GET /auth/me returned
NoUser == 0
TheUser == 1

NoResult ==
    [kind |-> "none", status |-> 0, hasResponse |-> FALSE,
     message |-> <<>>, data |-> "none"]

\* The resolved value of api.post / fetch: a response with a 2xx status.
OkResponse(d) ==
    [kind |-> "response", status |-> 200, hasResponse |-> TRUE,
     message |-> <<>>, data |-> d]

\* The error axios rejects with: for an HTTP error status it carries the
\* response and the message "Request failed with status code N"; for a
\* network error it carries no response and the message "Network Error".
AxiosError(status) ==
    [kind |-> "error", status |-> status, hasResponse |-> status # 0,
     message |-> IF status = 0
                 THEN <<"Network", "Error">>
                 ELSE <<"Request", "failed", "with", "status", "code",
                        ToString(status)>>,
     data |-> "none"]

\* What LikeButton's fetch settles with on failure: a response whose ok is
\* false, or, with no response, the rejection of fetch itself.
FetchFailure(status) ==
    [kind |-> IF status = 0 THEN "error" ELSE "response",
     status |-> status, hasResponse |-> status # 0,
     message |-> IF status = 0 THEN <<"Failed", "to", "fetch">> ELSE <<>>,
     data |-> "none"]

\* String.prototype.includes on messages, word by word
Includes(hay, needle) ==
    \E i \in 1..(Len(hay) - Len(needle) + 1) :
        SubSeq(hay, i, i + Len(needle) - 1) = needle

VARIABLES
    access_token,   \* localStorage item "access_token" (NoToken: absent)
    loginNav,       \* per request: assignments window.location.href = "/login"
    st,             \* per request: position in the send/renew/resend chain
    retry,          \* per request: originalRequest._retry
    authHeader,     \* per request: bearer value of the last transmission
    transmissions,  \* per request: times the request was put on the wire
    refreshCalls,   \* per request: POST /auth/refresh calls issued for it
    renewed,        \* per request: access_token returned by its refresh
    unauth,         \* per request: 401 answers received (refresh included)
    answered,       \* per request: status that answered the last transmission
    isLiked,        \* per surface: visible liked flag
    likeCount,      \* per surface: visible like count
    isLiking,       \* per surface: in-flight flag (isLiking / isLoading)
    previous,       \* per surface: snapshot taken by handleLike
    toast,          \* per surface: toast shown by the current invocation
    errorLog,       \* per surface: console.error written by the invocation
    result,         \* per surface: what the toggle call settled with
    trace,          \* per surface: effects of the invocation, in order
    pending,        \* per surface: toggle network calls not yet settled
    toggles,        \* handleLike invocations that passed the guard so far
    succeeded,      \* per surface: some toggle call has resolved
    initial,        \* per surface: the {liked, count} it was mounted with
    ignored,        \* per surface: a click arrived during this flight and was dropped
    comments,       \* detail view: comments of the displayed post (how many)
    previousComments, \* detail view: comments of the snapshot { ...post }
    loadPc,         \* per page: where its loadPosts / loadPost call stands
    fetched,        \* per page: the post as the server returned it
    reloads,        \* loadPosts / loadPost calls so far
    serverLiked,    \* server: this user likes the item
    serverCount,    \* server: likes of the item
    serverComments, \* server: comments of the item
    user,           \* auth store: user
    isAuthenticated, \* auth store: isAuthenticated
    isLoading,      \* auth store: isLoading
    authPc,         \* per auth operation: the await it is suspended at
    authStarts,     \* auth operations called so far
    tokenAtLogin,   \* storage as it was when login() was last called
    cleared,        \* a logout or a failed renewal removed the token and
                    \* no login has stored one since
    hasMounted,     \* ProtectedRoute: hasMounted.current
    routerPush      \* ProtectedRoute: the redirect effect's last run called
                    \* router.push("/auth/login")

tvars == <<access_token, loginNav, st, retry, authHeader, transmissions,
           refreshCalls, renewed, unauth, answered>>
uvars == <<isLiked, likeCount, isLiking, previous, toast, errorLog, result,
           trace, pending, toggles, succeeded, initial, ignored,
           comments, previousComments, loadPc, fetched, reloads>>
svars == <<serverLiked, serverCount, serverComments>>
\* what is observed of the session, and the ProtectedRoute subscribed to the store
ovars == <<tokenAtLogin, cleared, hasMounted, routerPush>>
avars == <<user, isAuthenticated, isLoading, authPc, authStarts, ovars>>
vars == <<tvars, uvars, svars, avars>>

\* ------------------------------------------------ lib/api.ts: interceptors
\* (variant: the interceptor never reads storage)
RequestInterceptorKeeps(configured, stored) ==
    configured

\* Request interceptor: the stored token, when there is one, replaces
\* whatever Authorization the config carries.
RequestInterceptor(configured, stored) ==
    IF stored # NoToken THEN stored ELSE configured

\* (variant: the _retry test left out)
ShouldRenewAlways(status, retried) ==
    status = 401

\* (variant: any error that carries a response is renewed once)
ShouldRenewAnyError(status, retried) ==
    status # 0 /\ ~retried

\* (variant: the _retry test inverted)
ShouldRenewInverted(status, retried) ==
    status = 401 /\ retried

\* Response interceptor, the renewal condition.
ShouldRenew(status, retried) ==
    status = 401 /\ ~retried

\* (variant: the resend keeps the Authorization of the first transmission)
RenewedHeaderStale(r, fresh) ==
    authHeader[r]

\* The bearer value the resend carries: the interceptor sets the header to
\* the fresh token, api(originalRequest) runs the request interceptor again.
RenewedHeader(r, fresh) ==
    RequestInterceptor(fresh, fresh)

\* --------------------------------------------- handleLike: the optimistic flip
NextLiked(liked) == ~liked

\* (variant: the count always goes up)
NextCountUp(liked, count) ==
    count + 1

NextCount(liked, count) == IF liked THEN count - 1 ELSE count + 1

\* (variant: the button is never disabled)
DisabledNever(s) == FALSE

\* <Button disabled={isLiking}> (isLoading in LikeButton)
Disabled(s) == isLiking[s]

\* The early return of handleLike; LikeButton.handleLike has none.
GuardReturns(s) ==
    IF s \in ApiSurfaces THEN isLiking[s] ELSE FALSE

\* Effects of handleLike up to its await, in program order.
ClickOrder == <<"optimistic", "flag", "issue">>
\* (variant: the call is not awaited, finally clears the flag at once)
FlagDropped == FALSE

\* The flag as handleLike leaves it when it suspends on the toggle call.
FlagWhileAwaiting == TRUE

\* ------------------------------------------- handleLike: outcome handling
LikedToast == "Post liked!"
CannotLikeToast == "Cannot like post"
AuthRequiredToast == "Authentication required"
FailedToggleToast == "Failed to toggle like"
FailedUpdateToast == "Failed to update like status"

\* PostCard: status = err.response?.status ?? err.status
CardStatus(err) == err.status

CardErrorToast(err) ==
    IF CardStatus(err) = 400 THEN CannotLikeToast
    ELSE IF CardStatus(err) = 401 THEN AuthRequiredToast
    ELSE FailedToggleToast

CardShouldLog(err) ==
    CardStatus(err) # 400 /\ CardStatus(err) # 401

\* PostDetailPage: the toast is chosen by the text of error.message.
DetailErrorToast(err) ==
    IF Includes(err.message, <<"cannot", "like", "your", "own", "post">>)
    THEN CannotLikeToast
    ELSE FailedToggleToast

\* PostDetailPage: logs only when the error carries a response object.
DetailShouldLog(err) ==
    err.hasResponse /\ err.status # 400 /\ err.status # 401

\* LikeButton: fetch resolves for every HTTP status; 400 and 401 are handled
\* in the try block, every other status is thrown into the catch block,
\* where a failed fetch (no response) also lands.
ButtonErrorToast(res) ==
    IF res.hasResponse /\ res.status = 400 THEN CannotLikeToast
    ELSE IF res.hasResponse /\ res.status = 401 THEN AuthRequiredToast
    ELSE FailedUpdateToast

ButtonShouldLog(res) ==
    ~(res.hasResponse /\ res.status \in {400, 401})

ErrorToast(s, err) ==
    IF s = "card" THEN CardErrorToast(err)
    ELSE IF s = "detail" THEN DetailErrorToast(err)
    ELSE ButtonErrorToast(err)

ShouldLog(s, err) ==
    IF s = "card" THEN CardShouldLog(err)
    ELSE IF s = "detail" THEN DetailShouldLog(err)
    ELSE ButtonShouldLog(err)

\* The success toast: PostCard tests !previousLiked, PostDetailPage tests
\* nextLiked, LikeButton tests data.status === "liked".
SuccessToast(s, res) ==
    IF s = "button"
    THEN IF res.data = "liked" THEN LikedToast ELSE "none"
    ELSE IF ~previous[s].liked THEN LikedToast ELSE "none"

\* (variant: the catch block leaves the liked flag as flipped)
RollbackLikedKept(s) == isLiked[s]

\* The values the catch block writes back.
RollbackLiked(s) == previous[s].liked
\* (variant: the catch block restores the flag but not the count)
RollbackCountKept(s) == likeCount[s]
RollbackCount(s) == previous[s].count

\* The outcome class a caller derives from an error (PostCard's branches).
Classify(err) ==
    IF CardStatus(err) = 400 THEN "RejectedByPolicy"
    ELSE IF CardStatus(err) = 401 THEN "Unauthenticated"
    ELSE "TransientFailure"

\* ------------------------------------------------------------------- Init
Init ==
    /\ access_token \in {NoToken} \cup Tokens
    /\ loginNav = [r \in Callers |-> 0]
    /\ st = [r \in Callers |-> "Unsent"]
    /\ retry = [r \in Callers |-> FALSE]
    /\ authHeader = [r \in Callers |-> NoToken]
    /\ transmissions = [r \in Callers |-> 0]
    /\ refreshCalls = [r \in Callers |-> 0]
    /\ renewed = [r \in Callers |-> NoToken]
    /\ unauth = [r \in Callers |-> 0]
    /\ answered = [r \in Callers |-> NoAnswer]
    /\ serverLiked \in BOOLEAN
    /\ serverCount \in (IF serverLiked THEN 1 ELSE 0)..MaxCount
    /\ isLiked = [s \in Surfaces |-> serverLiked]
    /\ likeCount = [s \in Surfaces |-> serverCount]
    /\ isLiking = [s \in Surfaces |-> FALSE]
    /\ previous = [s \in Surfaces |-> [liked |-> serverLiked, count |-> serverCount]]
    /\ toast = [s \in Surfaces |-> "none"]
    /\ errorLog = [s \in Surfaces |-> FALSE]
    /\ result = [s \in Surfaces |-> NoResult]
    /\ trace = [s \in Surfaces |-> <<>>]
    /\ pending = [s \in Surfaces |-> 0]
    /\ toggles = 0
    /\ succeeded = [s \in Surfaces |-> FALSE]
    /\ initial = [s \in Surfaces |-> [liked |-> serverLiked, count |-> serverCount]]
    /\ ignored = [s \in Surfaces |-> FALSE]
    /\ serverComments = 0
    /\ comments = 0
    /\ previousComments = 0
    /\ loadPc = [s \in ApiSurfaces |-> "idle"]
    /\ fetched = [s \in ApiSurfaces |->
                    [liked |-> serverLiked, count |-> serverCount, comments |-> 0]]
    /\ reloads = 0
    /\ user = NoUser
    /\ isAuthenticated = FALSE
    /\ isLoading = TRUE
    /\ authPc = [op \in AuthOps |-> "idle"]
    /\ authStarts = 0
    /\ tokenAtLogin = NoToken
    /\ cleared = FALSE
    /\ hasMounted = FALSE
    /\ routerPush = FALSE

\* (variant: the finally block leaves the flag set)
FlagStuck == TRUE

\* finally block: setIsLiking(false) / setIsLoading(false)
FlagAfterSettle == FALSE

\* ------------------------------------------------- continuations of the await
\* try block after the await, then finally
Resolved(s, res) ==
    /\ toast' = [toast EXCEPT ![s] = SuccessToast(s, res)]
    /\ isLiking' = [isLiking EXCEPT ![s] = FlagAfterSettle]
    /\ result' = [result EXCEPT ![s] = res]
    /\ trace' = [trace EXCEPT ![s] = @ \o <<"settled", "unflag">>]
    /\ pending' = [pending EXCEPT ![s] = @ - 1]
    /\ succeeded' = [succeeded EXCEPT ![s] = TRUE]
    /\ ignored' = [ignored EXCEPT ![s] = FALSE]
    /\ UNCHANGED <<isLiked, likeCount, previous, errorLog, toggles, initial,
                   comments, previousComments, loadPc, fetched, reloads>>

\* catch block, then finally
Rejected(s, err) ==
    /\ isLiked' = [isLiked EXCEPT ![s] = RollbackLiked(s)]
    /\ likeCount' = [likeCount EXCEPT ![s] = RollbackCount(s)]
    /\ toast' = [toast EXCEPT ![s] = ErrorToast(s, err)]
    /\ errorLog' = [errorLog EXCEPT ![s] = ShouldLog(s, err)]
    /\ isLiking' = [isLiking EXCEPT ![s] = FlagAfterSettle]
    /\ result' = [result EXCEPT ![s] = err]
    /\ trace' = [trace EXCEPT ![s] = @ \o <<"settled", "rollback", "unflag">>]
    /\ pending' = [pending EXCEPT ![s] = @ - 1]
    /\ ignored' = [ignored EXCEPT ![s] = FALSE]
    /\ comments' = IF s = "detail" THEN previousComments ELSE comments
    /\ UNCHANGED <<previous, toggles, succeeded, initial, previousComments,
                   loadPc, fetched, reloads>>

\* The server executes the toggle and reports the state it now holds.
ServerToggle ==
    /\ serverLiked' = ~serverLiked
    /\ serverCount' = IF serverLiked THEN serverCount - 1 ELSE serverCount + 1
    /\ serverComments' = serverComments

ServerReport == IF serverLiked THEN "unliked" ELSE "liked"

\* ---------------------------------------------------------------- actions
\* A click on the like button of surface s.  A disabled button delivers no
\* click; otherwise handleLike runs up to its await: snapshot, optimistic
\* flip, in-flight flag, and the toggle call put on the wire.
Click(s) ==
    /\ UNCHANGED avars
    /\ IF Disabled(s) \/ GuardReturns(s)
       THEN /\ ignored' = [ignored EXCEPT ![s] = TRUE]
            /\ UNCHANGED <<tvars, svars, isLiked, likeCount, isLiking,
                           previous, toast, errorLog, result, trace, pending,
                           toggles, succeeded, initial, comments,
                           previousComments, loadPc, fetched, reloads>>
       ELSE /\ toggles < MaxToggles
            /\ previous' = [previous EXCEPT ![s] =
                               [liked |-> isLiked[s], count |-> likeCount[s]]]
            /\ isLiked' = [isLiked EXCEPT ![s] = NextLiked(isLiked[s])]
            /\ likeCount' = [likeCount EXCEPT ![s] =
                                NextCount(isLiked[s], likeCount[s])]
            /\ isLiking' = [isLiking EXCEPT ![s] = FlagWhileAwaiting]
            /\ toast' = [toast EXCEPT ![s] = "none"]
            /\ errorLog' = [errorLog EXCEPT ![s] = FALSE]
            /\ result' = [result EXCEPT ![s] = NoResult]
            /\ trace' = [trace EXCEPT ![s] = ClickOrder]
            /\ pending' = [pending EXCEPT ![s] = @ + 1]
            /\ toggles' = toggles + 1
            /\ previousComments' =
                   IF s = "detail" THEN comments ELSE previousComments
            /\ UNCHANGED <<succeeded, initial, ignored, svars, comments,
                           loadPc, fetched, reloads>>
            /\ IF s \in ApiSurfaces
               THEN /\ st' = [st EXCEPT ![s] = "Sent"]
                    /\ retry' = [retry EXCEPT ![s] = FALSE]
                    /\ authHeader' = [authHeader EXCEPT ![s] =
                                         RequestInterceptor(NoToken, access_token)]
                    /\ transmissions' = [transmissions EXCEPT ![s] = 1]
                    /\ refreshCalls' = [refreshCalls EXCEPT ![s] = 0]
                    /\ renewed' = [renewed EXCEPT ![s] = NoToken]
                    /\ unauth' = [unauth EXCEPT ![s] = 0]
                    /\ loginNav' = [loginNav EXCEPT ![s] = 0]
                    /\ answered' = [answered EXCEPT ![s] = NoAnswer]
                    /\ UNCHANGED access_token
               ELSE UNCHANGED tvars

\* The server answers a transmission of request r with success; the
\* response interceptor passes the response on and handleLike resumes.
AnswerOk(r) ==
    /\ UNCHANGED avars
    /\ st[r] \in {"Sent", "Resent"}
    /\ ServerToggle
    /\ st' = [st EXCEPT ![r] = "Succeeded"]
    /\ answered' = [answered EXCEPT ![r] = 200]
    /\ Resolved(r, OkResponse(ServerReport))
    /\ UNCHANGED <<access_token, loginNav, retry, authHeader, transmissions,
                   refreshCalls, renewed, unauth>>

\* An error answer that meets the renewal condition (a first 401): the
\* response interceptor marks the request and calls POST /auth/refresh with
\* the bare axios (no interceptors).
AnswerUnauthenticated(r, a) ==
    /\ UNCHANGED avars
    /\ st[r] \in {"Sent", "Resent"}
    /\ a \in Failures
    /\ ShouldRenew(a, retry[r])
    /\ retry' = [retry EXCEPT ![r] = TRUE]
    /\ refreshCalls' = [refreshCalls EXCEPT ![r] = @ + 1]
    /\ unauth' = [unauth EXCEPT ![r] = IF a = 401 THEN @ + 1 ELSE @]
    /\ answered' = [answered EXCEPT ![r] = a]
    /\ st' = [st EXCEPT ![r] = "RenewalPending"]
    /\ UNCHANGED <<access_token, loginNav, authHeader, transmissions, renewed,
                   uvars, svars>>

\* Any other failure, or a 401 on a request already retried: the response
\* interceptor rejects with the error and handleLike's catch block runs.
AnswerRejected(r, a) ==
    /\ UNCHANGED avars
    /\ st[r] \in {"Sent", "Resent"}
    /\ a \in Failures
    /\ ~ShouldRenew(a, retry[r])
    /\ st' = [st EXCEPT ![r] = "Failed"]
    /\ unauth' = [unauth EXCEPT ![r] = IF a = 401 THEN @ + 1 ELSE @]
    /\ answered' = [answered EXCEPT ![r] = a]
    /\ Rejected(r, AxiosError(a))
    /\ UNCHANGED <<access_token, loginNav, retry, authHeader, transmissions,
                   refreshCalls, renewed, svars>>

\* The server executes the toggle but its response never arrives: axios
\* rejects with a network error and handleLike's catch block runs.
AnswerLost(r) ==
    /\ UNCHANGED avars
    /\ st[r] \in {"Sent", "Resent"}
    /\ ~ShouldRenew(0, retry[r])
    /\ ServerToggle
    /\ st' = [st EXCEPT ![r] = "Failed"]
    /\ answered' = [answered EXCEPT ![r] = 0]
    /\ Rejected(r, AxiosError(0))
    /\ UNCHANGED <<access_token, loginNav, retry, authHeader, transmissions,
                   refreshCalls, renewed, unauth>>

\* The refresh call resolves: store the token, set the header, resend.
RefreshOk(r, fresh) ==
    /\ UNCHANGED avars
    /\ st[r] = "RenewalPending"
    /\ fresh \in Tokens
    /\ access_token' = fresh
    /\ renewed' = [renewed EXCEPT ![r] = fresh]
    /\ authHeader' = [authHeader EXCEPT ![r] = RenewedHeader(r, fresh)]
    /\ transmissions' = [transmissions EXCEPT ![r] = @ + 1]
    /\ answered' = [answered EXCEPT ![r] = NoAnswer]
    /\ st' = [st EXCEPT ![r] = "Resent"]
    /\ UNCHANGED <<loginNav, retry, refreshCalls, unauth, uvars, svars>>

\* The refresh call rejects: remove the token, navigate to /login, reject
\* with the refresh error; handleLike's catch block runs.
RefreshFailed(r, a) ==
    /\ UNCHANGED avars
    /\ st[r] = "RenewalPending"
    /\ a \in Failures
    /\ access_token' = NoToken
    /\ loginNav' = [loginNav EXCEPT ![r] = @ + 1]
    /\ unauth' = [unauth EXCEPT ![r] = IF a = 401 THEN @ + 1 ELSE @]
    /\ st' = [st EXCEPT ![r] = "Failed"]
    /\ Rejected(r, AxiosError(a))
    /\ UNCHANGED <<retry, authHeader, transmissions, refreshCalls, renewed,
                   answered, svars>>

\* LikeButton: fetch settles with a 2xx response.
FetchOk ==
    /\ UNCHANGED avars
    /\ pending["button"] > 0
    /\ ServerToggle
    /\ Resolved("button", OkResponse(ServerReport))
    /\ UNCHANGED tvars

\* LikeButton: fetch settles with an error status, or fails.
FetchFailed(a) ==
    /\ UNCHANGED avars
    /\ pending["button"] > 0
    /\ a \in Failures
    /\ Rejected("button", FetchFailure(a))
    /\ UNCHANGED <<tvars, svars>>

\* LikeButton: the server executes the toggle, fetch fails all the same.
FetchLost ==
    /\ UNCHANGED avars
    /\ pending["button"] > 0
    /\ ServerToggle
    /\ Rejected("button", FetchFailure(0))
    /\ UNCHANGED tvars

Next ==
    \/ \E s \in Surfaces : Click(s)
    \/ \E r \in ApiSurfaces : AnswerOk(r)
    \/ \E r \in ApiSurfaces, a \in Failures : AnswerUnauthenticated(r, a)
    \/ \E r \in ApiSurfaces, a \in Failures : AnswerRejected(r, a)
    \/ \E r \in ApiSurfaces : AnswerLost(r)
    \/ \E r \in ApiSurfaces, fresh \in Tokens : RefreshOk(r, fresh)
    \/ \E r \in ApiSurfaces, a \in Failures : RefreshFailed(r, a)
    \/ FetchOk
    \/ \E a \in Failures : FetchFailed(a)
    \/ FetchLost

Spec == Init /\ [][Next]_vars

\* ------------------------------------------- auth store (useAuthStore)
\* api.post / api.get of a new request r: the request interceptor attaches
\* the token that storage holds at this moment.
SendNew(r, stored) ==
    /\ st' = [st EXCEPT ![r] = "Sent"]
    /\ retry' = [retry EXCEPT ![r] = FALSE]
    /\ authHeader' = [authHeader EXCEPT ![r] =
                         RequestInterceptor(NoToken, stored)]
    /\ transmissions' = [transmissions EXCEPT ![r] = 1]
    /\ refreshCalls' = [refreshCalls EXCEPT ![r] = 0]
    /\ renewed' = [renewed EXCEPT ![r] = NoToken]
    /\ unauth' = [unauth EXCEPT ![r] = 0]
    /\ loginNav' = [loginNav EXCEPT ![r] = 0]
    /\ answered' = [answered EXCEPT ![r] = NoAnswer]

\* (variant: logout's finally leaves storage alone)
LogoutFinallySkipped(tok) == tok

\* logout's finally block: localStorage.removeItem("access_token")
LogoutFinally(tok) == NoToken

\* the await an operation is suspended at while its getMe call is out
GetMePc(op) == IF op = "login" THEN "getMe" ELSE "fetchUser"

\* The catch (and finally) block of operation op, entered with tok in
\* storage: what it leaves in storage and in the store.
AuthCatch(op, tok) ==
    /\ authPc' = [authPc EXCEPT ![op] = "idle"]
    /\ CASE op = "login" ->
                /\ access_token' = tok
                /\ isLoading' = FALSE
                /\ UNCHANGED <<user, isAuthenticated>>
         [] op = "fetchUser" ->
                /\ access_token' = NoToken
                /\ user' = NoUser
                /\ isAuthenticated' = FALSE
                /\ isLoading' = FALSE
         [] op = "logout" ->
                /\ access_token' = LogoutFinally(tok)
                /\ user' = NoUser
                /\ isAuthenticated' = FALSE
                /\ UNCHANGED isLoading

\* login(email, password) up to its first await: POST /auth/login
Login ==
    /\ authPc["login"] = "idle"
    /\ authStarts < MaxAuthOps
    /\ authStarts' = authStarts + 1
    /\ isLoading' = TRUE
    /\ authPc' = [authPc EXCEPT !["login"] = "login"]
    /\ SendNew("login", access_token)
    /\ UNCHANGED <<access_token, user, isAuthenticated, uvars, svars>>

\* POST /auth/login resolves with a token: login stores it and calls getMe
LoginAnswered(tok) ==
    /\ authPc["login"] = "login"
    /\ st["login"] \in {"Sent", "Resent"}
    /\ tok \in Tokens
    /\ access_token' = tok
    /\ authPc' = [authPc EXCEPT !["login"] = "getMe"]
    /\ SendNew("login", tok)
    /\ UNCHANGED <<user, isAuthenticated, isLoading, authStarts, uvars, svars>>

\* fetchUser() up to its await: without a token it settles the store at
\* once, with one it calls getMe
FetchUser ==
    /\ authPc["fetchUser"] = "idle"
    /\ authStarts < MaxAuthOps
    /\ authStarts' = authStarts + 1
    /\ IF access_token = NoToken
       THEN /\ user' = NoUser
            /\ isAuthenticated' = FALSE
            /\ isLoading' = FALSE
            /\ UNCHANGED <<authPc, tvars>>
       ELSE /\ isLoading' = TRUE
            /\ authPc' = [authPc EXCEPT !["fetchUser"] = "fetchUser"]
            /\ SendNew("fetchUser", access_token)
            /\ UNCHANGED <<access_token, user, isAuthenticated>>
    /\ UNCHANGED <<uvars, svars>>

\* GET /auth/me resolves, in login or in fetchUser
GetMeAnswered(op) ==
    /\ op \in {"login", "fetchUser"}
    /\ authPc[op] = GetMePc(op)
    /\ st[op] \in {"Sent", "Resent"}
    /\ st' = [st EXCEPT ![op] = "Succeeded"]
    /\ answered' = [answered EXCEPT ![op] = 200]
    /\ user' = TheUser
    /\ isAuthenticated' = TRUE
    /\ isLoading' = FALSE
    /\ authPc' = [authPc EXCEPT ![op] = "idle"]
    /\ UNCHANGED <<access_token, loginNav, retry, authHeader, transmissions,
                   refreshCalls, renewed, unauth, authStarts, uvars, svars>>

\* logout() up to its await: POST /auth/logout
Logout ==
    /\ authPc["logout"] = "idle"
    /\ authStarts < MaxAuthOps
    /\ authStarts' = authStarts + 1
    /\ authPc' = [authPc EXCEPT !["logout"] = "logout"]
    /\ SendNew("logout", access_token)
    /\ UNCHANGED <<access_token, user, isAuthenticated, isLoading, uvars, svars>>

\* POST /auth/logout resolves: authAPI.logout removes the token, then
\* logout's finally block runs
LogoutAnswered ==
    /\ authPc["logout"] = "logout"
    /\ st["logout"] \in {"Sent", "Resent"}
    /\ st' = [st EXCEPT !["logout"] = "Succeeded"]
    /\ answered' = [answered EXCEPT !["logout"] = 200]
    /\ access_token' = LogoutFinally(NoToken)
    /\ user' = NoUser
    /\ isAuthenticated' = FALSE
    /\ authPc' = [authPc EXCEPT !["logout"] = "idle"]
    /\ UNCHANGED <<loginNav, retry, authHeader, transmissions, refreshCalls,
                   renewed, unauth, isLoading, authStarts, uvars, svars>>

\* A call of operation op is rejected by the response interceptor without
\* renewal: the operation's catch block runs.
AuthAnswerRejected(op, a) ==
    /\ authPc[op] # "idle"
    /\ st[op] \in {"Sent", "Resent"}
    /\ a \in Failures
    /\ ~ShouldRenew(a, retry[op])
    /\ st' = [st EXCEPT ![op] = "Failed"]
    /\ unauth' = [unauth EXCEPT ![op] = IF a = 401 THEN @ + 1 ELSE @]
    /\ answered' = [answered EXCEPT ![op] = a]
    /\ AuthCatch(op, access_token)
    /\ UNCHANGED <<loginNav, retry, authHeader, transmissions, refreshCalls,
                   renewed, authStarts, uvars, svars>>

\* The refresh call issued for operation op rejects: the interceptor
\* removes the token and navigates, then the operation's catch block runs.
AuthRefreshFailed(op, a) ==
    /\ authPc[op] # "idle"
    /\ st[op] = "RenewalPending"
    /\ a \in Failures
    /\ loginNav' = [loginNav EXCEPT ![op] = @ + 1]
    /\ unauth' = [unauth EXCEPT ![op] = IF a = 401 THEN @ + 1 ELSE @]
    /\ st' = [st EXCEPT ![op] = "Failed"]
    /\ AuthCatch(op, NoToken)
    /\ UNCHANGED <<retry, authHeader, transmissions, refreshCalls, renewed,
                   answered, authStarts, uvars, svars>>

\* The auth store at work: its three operations, each call going through
\* the interceptors of `api`.
AuthNext ==
    \/ Login /\ UNCHANGED ovars
    \/ (\E tok \in Tokens : LoginAnswered(tok)) /\ UNCHANGED ovars
    \/ FetchUser /\ UNCHANGED ovars
    \/ (\E op \in AuthOps : GetMeAnswered(op)) /\ UNCHANGED ovars
    \/ Logout /\ UNCHANGED ovars
    \/ LogoutAnswered /\ UNCHANGED ovars
    \/ \E op \in AuthOps, a \in Failures : AnswerUnauthenticated(op, a)
    \/ \E op \in AuthOps, fresh \in Tokens : RefreshOk(op, fresh)
    \/ (\E op \in AuthOps, a \in Failures : AuthAnswerRejected(op, a))
            /\ UNCHANGED ovars
    \/ (\E op \in AuthOps, a \in Failures : AuthRefreshFailed(op, a))
            /\ UNCHANGED ovars

AuthSpec == Init /\ [][AuthNext]_vars

\* ------------------------------------------ the session, with its history
\* What a step does to the record of the session: whether the token has
\* been removed by a logout or a failed renewal with no login since, and
\* what storage held when login() was called.
Observed(clr, tok) ==
    /\ cleared' = clr
    /\ tokenAtLogin' = tok
    /\ UNCHANGED <<hasMounted, routerPush>>

\* The auth store at work, the history of the session recorded.
SessionNext ==
    \/ Login /\ Observed(cleared, access_token)
    \/ (\E tok \in Tokens : LoginAnswered(tok)) /\ Observed(FALSE, tokenAtLogin)
    \/ FetchUser /\ UNCHANGED ovars
    \/ (\E op \in AuthOps : GetMeAnswered(op)) /\ UNCHANGED ovars
    \/ Logout /\ UNCHANGED ovars
    \/ LogoutAnswered /\ Observed(TRUE, tokenAtLogin)
    \/ \E op \in AuthOps, a \in Failures : AnswerUnauthenticated(op, a)
    \/ \E op \in AuthOps, fresh \in Tokens : RefreshOk(op, fresh)
    \/ \E op \in AuthOps, a \in Failures :
            AuthAnswerRejected(op, a)
                /\ Observed(op = "logout" \/ cleared, tokenAtLogin)
    \/ (\E op \in AuthOps, a \in Failures : AuthRefreshFailed(op, a))
            /\ Observed(TRUE, tokenAtLogin)

SessionSpec == Init /\ [][SessionNext]_vars

\* ------------------------------------- setUser and the ProtectedRoute
\* (variant: setUser always reports authenticated)
TruthyAlways(u) == TRUE

\* !!user
Truthy(u) == u # NoUser

\* setUser(user)
SetUser(u) ==
    /\ u \in {NoUser, TheUser}
    /\ user' = u
    /\ isAuthenticated' = Truthy(u)
    /\ UNCHANGED <<isLoading, authPc, authStarts, tvars, uvars, svars>>

\* (variant: the spinner branch left out)
RendersWithoutSpinner ==
    IF ~isAuthenticated THEN "null" ELSE "children"

\* What ProtectedRoute returns for the store state it reads.
Renders ==
    IF isLoading THEN "spinner"
    ELSE IF ~isAuthenticated THEN "null"
    ELSE "children"

\* The condition under which the redirect effect calls router.push.
RedirectEffect(mounted, loading, authenticated) ==
    mounted /\ ~loading /\ ~authenticated

\* ProtectedRoute mounts: first render, then its two effects in order
\* (hasMounted.current = true, then the redirect effect).
Mount ==
    /\ ~hasMounted
    /\ hasMounted' = TRUE
    /\ routerPush' = RedirectEffect(TRUE, isLoading, isAuthenticated)
    /\ UNCHANGED <<tvars, uvars, svars, user, isAuthenticated, isLoading,
                   authPc, authStarts, tokenAtLogin, cleared>>

\* The store has run set(): a mounted ProtectedRoute renders again, and its
\* redirect effect runs again when isAuthenticated or isLoading changed.
Rerender ==
    /\ hasMounted' = hasMounted
    /\ routerPush' =
          IF hasMounted /\ <<isAuthenticated', isLoading'>> # <<isAuthenticated, isLoading>>
          THEN RedirectEffect(hasMounted, isLoading', isAuthenticated')
          ELSE routerPush
    /\ UNCHANGED <<tokenAtLogin, cleared>>

\* The auth store with every operation of it, and a ProtectedRoute
\* subscribed to it.  A refresh call, when one is made, is rejected here:
\* the resend after a successful one ends in the same continuations of
\* the store as a first send.
StoreNext ==
    \/ Login /\ Rerender
    \/ (\E tok \in Tokens : LoginAnswered(tok)) /\ Rerender
    \/ FetchUser /\ Rerender
    \/ (\E op \in AuthOps : GetMeAnswered(op)) /\ Rerender
    \/ Logout /\ Rerender
    \/ LogoutAnswered /\ Rerender
    \/ \E op \in AuthOps, a \in Failures : AnswerUnauthenticated(op, a)
    \/ (\E op \in AuthOps, a \in Failures : AuthAnswerRejected(op, a)) /\ Rerender
    \/ (\E op \in AuthOps, a \in Failures : AuthRefreshFailed(op, a)) /\ Rerender
    \/ (\E u \in {NoUser, TheUser} : SetUser(u)) /\ Rerender
    \/ Mount

StoreSpec == Init /\ [][StoreNext]_vars

\* --------------------------- the pages: loadPosts, loadPost, comments
\* PostsPage renders its cards only while it is not loading.
CardMounted == loadPc["card"] = "idle"

\* PostDetailPage renders its error page in place of the post once a load
\* has failed.
DetailShown == loadPc["detail"] # "failed"

\* what the server returns for the post
ServerPost ==
    [liked |-> serverLiked, count |-> serverCount, comments |-> serverComments]

\* (variant: the card outlives the reload and keeps its state)
RemountedKept(data) ==
    [liked |-> isLiked["card"], count |-> likeCount["card"]]

\* PostCard mounts with the fetched post: useState(post.user_has_liked),
\* useState(post.likes_count)
Remounted(data) == [liked |-> data.liked, count |-> data.count]

\* loadPosts (list page) or loadPost (detail page) up to its await; the
\* list page shows its spinner in place of the cards.  The list page loads
\* again after a failure (search, page change); the detail page calls
\* loadPost again only from the handlers of its comment list.
LoadStart(s) ==
    /\ loadPc[s] = "idle" \/ (s = "card" /\ loadPc[s] = "failed")
    /\ reloads < MaxReloads
    /\ reloads' = reloads + 1
    /\ loadPc' = [loadPc EXCEPT ![s] = "sent"]
    /\ UNCHANGED <<tvars, svars, avars, isLiked, likeCount, isLiking,
                   previous, toast, errorLog, result, trace, pending, toggles,
                   succeeded, initial, ignored, comments, previousComments,
                   fetched>>

\* handleCreateComment: the server has stored the comment, loadPost is
\* called.
CreateComment ==
    /\ loadPc["detail"] = "idle"
    /\ reloads < MaxReloads
    /\ serverComments < MaxComments
    /\ serverComments' = serverComments + 1
    /\ reloads' = reloads + 1
    /\ loadPc' = [loadPc EXCEPT !["detail"] = "sent"]
    /\ UNCHANGED <<tvars, avars, serverLiked, serverCount, isLiked, likeCount,
                   isLiking, previous, toast, errorLog, result, trace, pending,
                   toggles, succeeded, initial, ignored, comments,
                   previousComments, fetched>>

\* The server reads the post for the GET of page s.
LoadServe(s) ==
    /\ loadPc[s] = "sent"
    /\ loadPc' = [loadPc EXCEPT ![s] = "served"]
    /\ fetched' = [fetched EXCEPT ![s] = ServerPost]
    /\ UNCHANGED <<tvars, svars, avars, isLiked, likeCount, isLiking,
                   previous, toast, errorLog, result, trace, pending, toggles,
                   succeeded, initial, ignored, comments, previousComments,
                   reloads>>

\* The GET resolves.  Detail page: setPost(data).  List page:
\* setPosts(data.posts) and the spinner gives way to newly mounted cards
\* (taken to happen when no call of the old card is still in flight).
LoadDone(s) ==
    /\ loadPc[s] = "served"
    /\ loadPc' = [loadPc EXCEPT ![s] = "idle"]
    /\ IF s = "detail"
       THEN /\ isLiked' = [isLiked EXCEPT ![s] = fetched[s].liked]
            /\ likeCount' = [likeCount EXCEPT ![s] = fetched[s].count]
            /\ comments' = fetched[s].comments
            /\ UNCHANGED <<isLiking, initial>>
       ELSE /\ pending[s] = 0
            /\ isLiked' = [isLiked EXCEPT ![s] = Remounted(fetched[s]).liked]
            /\ likeCount' = [likeCount EXCEPT ![s] = Remounted(fetched[s]).count]
            /\ isLiking' = [isLiking EXCEPT ![s] = FALSE]
            /\ initial' = [initial EXCEPT ![s] = Remounted(fetched[s])]
            /\ UNCHANGED comments
    /\ UNCHANGED <<tvars, svars, avars, previous, toast, errorLog, result,
                   trace, pending, toggles, succeeded, ignored,
                   previousComments, fetched, reloads>>

\* The GET rejects.  Detail page: setError, the error page is rendered.
\* List page: setPosts([]), no card is shown until a later load.
LoadFailed(s) ==
    /\ loadPc[s] \in {"sent", "served"}
    /\ loadPc' = [loadPc EXCEPT ![s] = "failed"]
    /\ UNCHANGED <<tvars, svars, avars, isLiked, likeCount, isLiking,
                   previous, toast, errorLog, result, trace, pending, toggles,
                   succeeded, initial, ignored, comments, previousComments,
                   fetched, reloads>>

\* The list card and the detail view of one post, toggled and reloaded.
\* The toggle calls are answered at their first transmission, a failure
\* being a 500 or a lost response: the renewal of the token and the other
\* statuses, which Spec covers, change what is notified, not what a page
\* displays.
ReloadNext ==
    \/ CardMounted /\ Click("card")
    \/ DetailShown /\ Click("detail")
    \/ \E r \in ApiSurfaces : AnswerOk(r)
    \/ \E r \in ApiSurfaces : AnswerRejected(r, 500)
    \/ \E r \in ApiSurfaces : AnswerLost(r)
    \/ \E s \in ApiSurfaces : LoadStart(s)
    \/ CreateComment
    \/ \E s \in ApiSurfaces : LoadServe(s)
    \/ \E s \in ApiSurfaces : LoadDone(s)
    \/ \E s \in ApiSurfaces : LoadFailed(s)

\* Both pages are rendered inside ProtectedRoute, to a signed-in user: a
\* token is stored.
ReloadInit == Init /\ access_token \in Tokens

ReloadSpec == ReloadInit /\ [][ReloadNext]_vars

\* ------------------------------------------------------------- properties
Terminal == {"Succeeded", "Failed"}

Visible(s) == [liked |-> isLiked[s], count |-> likeCount[s]]

Optimistic(snap) ==
    [liked |-> NextLiked(snap.liked), count |-> NextCount(snap.liked, snap.count)]

Idle(s) == pending[s] = 0

\* C1: for one request, whatever the server answers, at most one refresh
\* call and at most one resend are issued, and _retry, once true, is not
\* set back to false for as long as the request lives (it is false again
\* only in the descriptor of a new request, built after this one ended).
LoopPrevention ==
    /\ [](\A r \in ApiSurfaces :
            refreshCalls[r] <= 1 /\ transmissions[r] <= 2)
    /\ [][\A r \in ApiSurfaces :
            (retry[r] /\ ~retry'[r]) =>
                (st[r] \in Terminal /\ st'[r] = "Sent")]_vars

\* a request answered 401 on both transmissions has ended after one renewal
LoopPreventionWitness ==
    \E r \in ApiSurfaces :
        /\ st[r] = "Failed" /\ unauth[r] = 2 /\ retry[r]
        /\ transmissions[r] = 2 /\ refreshCalls[r] = 1

\* C2: a request whose only 401 was healed by a successful renewal is
\* transmitted exactly twice, the second time with the token the refresh
\* returned, which is the stored one at the resend; when the resend
\* succeeds the caller holds an ordinary 2xx response: optimistic state
\* kept, nothing logged, in-flight flag cleared.
RetryOnceWithRenewedCredential ==
    /\ [](\A r \in ApiSurfaces :
            (unauth[r] = 1 /\ st[r] \in {"Resent", "Succeeded"}) =>
                /\ transmissions[r] = 2 /\ refreshCalls[r] = 1
                /\ renewed[r] \in Tokens
                /\ authHeader[r] = renewed[r])
    /\ [](\A r \in ApiSurfaces :
            st[r] = "Succeeded" =>
                /\ result[r] \in {OkResponse("liked"), OkResponse("unliked")}
                /\ Visible(r) = Optimistic(previous[r])
                /\ ~errorLog[r] /\ ~isLiking[r]
                /\ toast[r] \in {LikedToast, "none"})
    /\ [][\A r \in ApiSurfaces :
            (st[r] = "RenewalPending" /\ st'[r] = "Resent") =>
                (access_token' = renewed'[r] /\ authHeader'[r] = access_token')]_vars

\* a resend with a token other than the first transmission's has succeeded
RetryOnceWitness ==
    \E r \in ApiSurfaces :
        /\ st[r] = "Succeeded" /\ unauth[r] = 1 /\ transmissions[r] = 2
        /\ renewed[r] = 2 /\ authHeader[r] = 2

\* C3: a request that has received "unauthenticated" twice (the refresh
\* rejected with 401, or the resend answered 401) ends Failed with a 401,
\* without a third transmission, and at that moment no token is stored.
TwiceUnauthenticatedClearsCredential ==
    [][\A r \in ApiSurfaces :
        (st[r] \notin Terminal /\ st'[r] = "Failed" /\ unauth'[r] = 2) =>
            /\ Classify(result'[r]) = "Unauthenticated"
            /\ transmissions'[r] <= 2
            /\ access_token' = NoToken]_vars

\* C4: when the refresh call fails, for whatever reason, the token is
\* removed, one navigation to /login is triggered, and the caller's
\* classification of the error it gets is Unauthenticated.
RenewalFailureIsUnauthenticated ==
    [][\A r \in ApiSurfaces :
        (st[r] = "RenewalPending" /\ st'[r] = "Failed") =>
            /\ access_token' = NoToken
            /\ loginNav'[r] = 1
            /\ Classify(result'[r]) = "Unauthenticated"]_vars

\* C5: on a surface none of whose toggle calls has succeeded, whenever no
\* call is in flight the visible {liked, count} is the one the surface
\* started with, however many toggle/rollback cycles it went through.
IdempotentRollback ==
    \A s \in Surfaces :
        (Idle(s) /\ ~succeeded[s]) => Visible(s) = initial[s]

\* two toggles on one surface, the last one rejected by policy or failed
\* in transit, and the surface is idle again
IdempotentRollbackWitness ==
    \E s \in Surfaces :
        /\ toggles = 2 /\ \A t \in Surfaces \ {s} : trace[t] = <<>>
        /\ Idle(s) /\ ~succeeded[s]
        /\ result[s].kind # "none" /\ result[s].status \in {400, 500, 0}

\* C6: on each surface at most one toggle call is in flight, and while it
\* is, no step (a further click in particular) issues another call for the
\* surface or changes its visible state before the call settles.
ConcurrencyGuard ==
    /\ [](\A s \in Surfaces : pending[s] <= 1)
    /\ [][\A s \in Surfaces :
            pending[s] > 0 =>
                /\ pending'[s] <= pending[s]
                /\ pending'[s] = pending[s] =>
                      /\ Visible(s)' = Visible(s)
                      /\ isLiking'[s] = isLiking[s]
                      /\ s \in ApiSurfaces =>
                            transmissions'[s] <= transmissions[s] + 1]_vars

\* LikeButton and a surface that goes through api have each dropped a click
\* while their call is in flight
ConcurrencyGuardWitness ==
    /\ ignored["button"] /\ pending["button"] = 1
    /\ \E s \in ApiSurfaces : ignored[s] /\ pending[s] = 1

Before(t, a, b) ==
    \A j \in 1..Len(t) :
        t[j] = b => \E i \in 1..(j - 1) : t[i] = a

\* C7: within an invocation the optimistic flip precedes the issue of the
\* call; the rollback and the clearing of the flag come after the call has
\* settled; and as long as the call is in flight the flag is set and the
\* visible state is the optimistic one.
ToggleOrdering ==
    \A s \in Surfaces :
        /\ Before(trace[s], "optimistic", "issue")
        /\ Before(trace[s], "flag", "issue")
        /\ Before(trace[s], "issue", "settled")
        /\ Before(trace[s], "settled", "rollback")
        /\ Before(trace[s], "settled", "unflag")
        /\ pending[s] > 0 =>
              /\ isLiking[s]
              /\ Visible(s) = Optimistic(previous[s])
        /\ ~isLiking[s] => Idle(s)

\* one invocation has completed on the success path, one on the failure path
ToggleOrderingWitness ==
    \E s, t \in Surfaces :
        /\ trace[s] = ClickOrder \o <<"settled", "unflag">>
        /\ trace[t] = ClickOrder \o <<"settled", "rollback", "unflag">>

\* C8: after a successful toggle the visible liked flag is the state the
\* server reported, also when that is not the optimistic guess.
ServerIsTieBreaker ==
    \A s \in Surfaces :
        (Idle(s) /\ result[s].kind = "response" /\ result[s].status = 200) =>
            isLiked[s] = (result[s].data = "liked")

\* C9: after a toggle that ended with status 400 or 401 the surface shows
\* its pre-flip snapshot, the toast is "Cannot like post" for 400 and a
\* message of its own for 401 (neither is the generic one), and nothing
\* was written to the error log.
ExpectedFailureHandling ==
    \A s \in Surfaces :
        (Idle(s) /\ result[s].kind # "none" /\ result[s].status \in {400, 401}) =>
            /\ Visible(s) = previous[s]
            /\ ~errorLog[s]
            /\ result[s].status = 400 => toast[s] = CannotLikeToast
            /\ result[s].status = 401 =>
                  toast[s] \notin {CannotLikeToast, FailedToggleToast,
                                   FailedUpdateToast, "none"}

\* C10: after a toggle that ended with a failure other than 400 and 401,
\* a missing response included, the surface shows its pre-flip snapshot and
\* the generic try-again toast, and the error was logged.
TransientFailureHandling ==
    \A s \in Surfaces :
        (Idle(s) /\ result[s].kind # "none" /\ result[s].status \in {500, 0}) =>
            /\ Visible(s) = previous[s]
            /\ toast[s] \in {FailedToggleToast, FailedUpdateToast}
            /\ errorLog[s]

ServerState == [liked |-> serverLiked, count |-> serverCount]

\* C11: for a surface that started from the server's state and is the only
\* one that toggled, once every issued call has settled the visible
\* {liked, count} is the {liked, count} the server holds.
VisibleMatchesServer ==
    \A s \in Surfaces :
        ((\A t \in Surfaces : Idle(t)) /\ (\A t \in Surfaces \ {s} : trace[t] = <<>>))
            => Visible(s) = ServerState

\* C12: an error answer other than 401 goes to the caller as it came: the
\* request fails with the error of that status, and the step issues no
\* refresh call, leaves the stored token alone, triggers no navigation
\* and does not resend.
PassThrough ==
    [][\A r \in ApiSurfaces :
        (answered[r] = NoAnswer /\ answered'[r] \in Failures \ {401}) =>
            /\ st'[r] = "Failed"
            /\ result'[r] = AxiosError(answered'[r])
            /\ refreshCalls'[r] = refreshCalls[r]
            /\ transmissions'[r] = transmissions[r]
            /\ access_token' = access_token
            /\ loginNav' = loginNav]_vars

\* a 500 has reached the caller, on a first send and on a resend, with a
\* token in storage
PassThroughWitness ==
    /\ access_token # NoToken
    /\ \E r, q \in ApiSurfaces :
        /\ st[r] = "Failed" /\ result[r] = AxiosError(500) /\ transmissions[r] = 1
        /\ st[q] = "Failed" /\ result[q] = AxiosError(500) /\ transmissions[q] = 2

AllowedTransitions ==
    {<<"Unsent", "Sent">>,
     <<"Sent", "Succeeded">>, <<"Sent", "Failed">>, <<"Sent", "RenewalPending">>,
     <<"RenewalPending", "Resent">>, <<"RenewalPending", "Failed">>,
     <<"Resent", "Succeeded">>, <<"Resent", "Failed">>}

\* a finished request's place is taken by the descriptor of a new request
NewDescriptor(r) ==
    /\ st[r] \in Terminal /\ st'[r] = "Sent"
    /\ transmissions'[r] = 1 /\ refreshCalls'[r] = 0 /\ ~retry'[r]

\* C13: a request moves only along Unsent -> Sent -> {Succeeded, Failed,
\* RenewalPending}, RenewalPending -> {Resent, Failed}, Resent ->
\* {Succeeded, Failed}; it leaves Succeeded and Failed no more, and the
\* counters show that Sent, RenewalPending and Resent are entered once.
RequestStateMachine ==
    /\ [][\A r \in ApiSurfaces :
            st'[r] # st[r] =>
                (<<st[r], st'[r]>> \in AllowedTransitions \/ NewDescriptor(r))]_vars
    /\ [](\A r \in ApiSurfaces :
            /\ st[r] = "Unsent" => transmissions[r] = 0
            /\ st[r] = "Sent" => (transmissions[r] = 1 /\ refreshCalls[r] = 0)
            /\ st[r] = "RenewalPending" => (transmissions[r] = 1 /\ refreshCalls[r] = 1)
            /\ st[r] = "Resent" => (transmissions[r] = 2 /\ refreshCalls[r] = 1))

\* one request has ended through the renewal branch, one directly
RequestStateMachineWitness ==
    \E r, q \in ApiSurfaces :
        /\ st[r] = "Failed" /\ transmissions[r] = 2 /\ refreshCalls[r] = 1
        /\ st[q] = "Succeeded" /\ transmissions[q] = 1 /\ refreshCalls[q] = 0

\* C17: on every surface, a toggle call that ended with a 401 in the
\* handler's hands went through one renewal attempt first.
ToggleThroughTransport ==
    \A s \in Surfaces :
        (Idle(s) /\ result[s].kind # "none" /\ result[s].status = 401)
            => refreshCalls[s] >= 1

\* C18: while the call is in flight the surface shows not liked and count
\* + 1 (when now liked) or count - 1 (otherwise) of the snapshot; after a
\* success on which the server agrees with the guess it shows the same.
OptimisticArithmetic ==
    \A s \in Surfaces :
        LET guess == [liked |-> ~previous[s].liked,
                      count |-> IF ~previous[s].liked
                                THEN previous[s].count + 1
                                ELSE previous[s].count - 1]
        IN  /\ pending[s] > 0 => Visible(s) = guess
            /\ (/\ Idle(s)
                /\ result[s].kind = "response" /\ result[s].status = 200
                /\ (result[s].data = "liked") = guess.liked)
               => Visible(s) = guess

\* {false, 1} became {true, 2} and then {true, 2} became {false, 1}, each
\* on a success the server agrees with
OptimisticArithmeticWitness ==
    \E s \in Surfaces :
        /\ initial[s] = [liked |-> FALSE, count |-> 1]
        /\ Idle(s) /\ previous[s] = [liked |-> TRUE, count |-> 2]
        /\ result[s] = OkResponse("unliked")
        /\ Visible(s) = [liked |-> FALSE, count |-> 1]

\* C19: a settled toggle has shown the success notification exactly when
\* the call succeeded and the item became liked.
PositiveNotificationIffLiked ==
    \A s \in Surfaces :
        (Idle(s) /\ result[s].kind # "none") =>
            (toast[s] = LikedToast <=>
                (/\ result[s].kind = "response" /\ result[s].status = 200
                 /\ result[s].data = "liked"))

\* C20: POST /auth/refresh has been called once for a request that has
\* received a 401 and not at all for any other; a call is issued only in
\* the step that delivers a 401 to a request not yet retried, so neither a
\* resend's 401 nor the refresh call's own failure issues another.
RefreshOncePerFirstUnauthenticated ==
    /\ [](\A r \in ApiSurfaces :
            refreshCalls[r] = IF unauth[r] >= 1 THEN 1 ELSE 0)
    /\ [][\A r \in ApiSurfaces :
            refreshCalls'[r] # refreshCalls[r] =>
                \/ NewDescriptor(r)
                \/ /\ refreshCalls'[r] = refreshCalls[r] + 1
                   /\ answered[r] = NoAnswer /\ answered'[r] = 401
                   /\ ~retry[r] /\ retry'[r]]_vars

\* two requests are awaiting their own refresh call at the same time
RefreshOncePerFirstUnauthenticatedWitness ==
    /\ \A r \in ApiSurfaces : st[r] = "RenewalPending" /\ refreshCalls[r] = 1
    /\ Cardinality(ApiSurfaces) = 2

\* request r is put on the wire in this step
Transmitted(r) ==
    \/ st[r] \notin {"Sent", "Resent"} /\ st'[r] \in {"Sent", "Resent"}
    \/ r = "login" /\ authPc[r] = "login" /\ authPc'[r] = "getMe"

\* C14: every transmission, first send or resend after renewal, carries
\* as bearer value the token that storage holds when it is made, and none
\* (NoToken) when storage is empty then; whatever a logout or another
\* request's failed renewal did to storage before.
BearerIsStoredAtSendTime ==
    [][\A r \in Requests : Transmitted(r) => authHeader'[r] = access_token']_vars

\* login's resend carries the stored token its refresh returned, after
\* fetchUser's failed renewal had emptied storage
BearerIsStoredAtSendTimeWitness ==
    /\ st["login"] = "Resent" /\ authHeader["login"] = access_token
    /\ access_token # NoToken
    /\ st["fetchUser"] = "Failed" /\ loginNav["fetchUser"] = 1

\* C15: the stored token changes only in a step of the response
\* interceptor that ends a renewal (refresh resolved or rejected).
TransportIsOnlyWriter ==
    [][access_token' # access_token =>
        \E r \in Requests :
            st[r] = "RenewalPending" /\ st'[r] \in {"Resent", "Failed"}]_vars

\* C16: the step in which logout() completes leaves storage without token,
\* isAuthenticated false and user null, however its API call ended.
LogoutClearsSession ==
    [][(authPc["logout"] = "logout" /\ authPc'["logout"] = "idle") =>
        (access_token' = NoToken /\ ~isAuthenticated' /\ user' = NoUser)]_vars

\* a logout whose call was answered 401, renewed (a token was stored) and
\* resent has completed after a login; and one whose call failed
LogoutClearsSessionWitness ==
    /\ authPc["logout"] = "idle" /\ st["logout"] \in Terminal
    /\ transmissions["logout"] = 2 /\ renewed["logout"] # NoToken
    /\ st["login"] = "Succeeded"
    /\ access_token = NoToken /\ ~isAuthenticated /\ user = NoUser

\* A network call of request r settles: the primary call or the resend is
\* answered (or lost), or the refresh call resolves or rejects.
Settles(r) ==
    \/ AnswerOk(r)
    \/ \E a \in Failures : AnswerUnauthenticated(r, a)
    \/ \E a \in Failures : AnswerRejected(r, a)
    \/ AnswerLost(r)
    \/ \E fresh \in Tokens : RefreshOk(r, fresh)
    \/ \E a \in Failures : RefreshFailed(r, a)

\* One surface toggling through `api`, again and again, under the proviso
\* that every network call eventually settles.
LiveNext ==
    \/ Click("card")
    \/ Settles("card")

LiveSpec == Init /\ [][LiveNext]_vars /\ WF_vars(Settles("card"))

\* the request is on the wire or awaiting its refresh call
InProgress(r) == st[r] \in {"Sent", "RenewalPending", "Resent"}

\* C21: provided every network call eventually settles, a request that
\* was sent eventually reaches Succeeded or Failed, and it uses at most
\* three network calls (primary call, refresh call, resend).
EveryRequestTerminates ==
    /\ \A r \in ApiSurfaces : InProgress(r) ~> (st[r] \in Terminal)
    /\ [](\A r \in ApiSurfaces : transmissions[r] + refreshCalls[r] <= 3)

\* a second request has ended after three network calls, the one before
\* it having succeeded as well
EveryRequestTerminatesWitness ==
    /\ st["card"] = "Succeeded"
    /\ transmissions["card"] + refreshCalls["card"] = 3
    /\ toggles = 2 /\ Visible("card") = initial["card"]

\* C22: the in-flight flag of a surface is set exactly while its toggle
\* call is unsettled; the step that settles the call clears it, so the
\* next click is accepted; a click that was ignored changes nothing and
\* the settling step starts no call in its place.
FlagTracksFlight ==
    /\ [](\A s \in Surfaces :
            /\ isLiking[s] <=> pending[s] > 0
            /\ Idle(s) => ~(Disabled(s) \/ GuardReturns(s)))
    /\ [][\A s \in Surfaces :
            /\ (ignored'[s] /\ ~ignored[s]) =>
                    UNCHANGED <<tvars, svars, avars, isLiked, likeCount,
                                isLiking, previous, toast, errorLog, result,
                                trace, pending, toggles, succeeded, initial,
                                comments, previousComments, loadPc, fetched,
                                reloads>>
            /\ pending'[s] < pending[s] =>
                    (/\ pending'[s] = 0 /\ ~isLiking'[s]
                     /\ toggles' = toggles
                     /\ transmissions' = transmissions)]_vars

\* a click was dropped while the second call of a surface is in flight,
\* the first one having settled with success
FlagTracksFlightWitness ==
    \E s \in Surfaces :
        /\ succeeded[s] /\ isLiking[s] /\ pending[s] = 1
        /\ ignored[s] /\ toggles = 2

\* C29: the list card shows either the state it was mounted with or the
\* flip of it (not liked0, count0 + 1 when not liked0, count0 - 1
\* otherwise); its count is within 1 of count0 and never negative.
CardWithinOneFlip ==
    LET liked0 == initial["card"].liked
        count0 == initial["card"].count
        flip == [liked |-> ~liked0,
                 count |-> IF ~liked0 THEN count0 + 1 ELSE count0 - 1]
    IN  /\ Visible("card") \in {initial["card"], flip}
        /\ likeCount["card"] - count0 \in {-1, 0, 1}
        /\ likeCount["card"] >= 0

\* the card, mounted as liked with count 1, shows the flip {false, 0} for
\* the second time, after a failed and rolled back first toggle
CardWithinOneFlipWitness ==
    /\ initial["card"] = [liked |-> TRUE, count |-> 1]
    /\ Visible("card") = [liked |-> FALSE, count |-> 0]
    /\ st["card"] \in {"Sent", "Resent"} /\ ~succeeded["card"]
    /\ toggles = 2 /\ trace["detail"] = <<>> /\ trace["button"] = <<>>

\* C24: once a logout or a failed renewal has removed the token, storage
\* holds none until the next login stores one (judged while neither a
\* login() nor a logout() call is under way).
ClearedStaysAbsent ==
    (cleared /\ authPc["login"] = "idle" /\ authPc["logout"] = "idle")
        => access_token = NoToken

\* login() rejects in this step, no other operation of the store having
\* been called
LoginFailsAlone ==
    /\ authPc["login"] # "idle" /\ authPc'["login"] = "idle"
    /\ st'["login"] = "Failed"
    /\ st["logout"] = "Unsent" /\ st["fetchUser"] = "Unsent"

\* C25: a login() that rejects leaves storage as it was when it was
\* called, and isAuthenticated false.
FailedLoginLeavesStorage ==
    [][LoginFailsAlone =>
        (access_token' = tokenAtLogin /\ ~isAuthenticated')]_vars

\* C27: a step that removes the token from storage does not leave the
\* store with isAuthenticated true (the token is there whenever the store
\* says authenticated).
AuthenticatedHasCredential ==
    [][(access_token # NoToken /\ access_token' = NoToken) =>
        ~isAuthenticated']_vars

\* operation op of the store returns in this step
Completes(op) ==
    \/ authPc[op] # "idle" /\ authPc'[op] = "idle"
    \/ op = "fetchUser" /\ authStarts' # authStarts /\ authPc' = authPc

\* C26: through login, logout, fetchUser and setUser, in any order and
\* with any outcome, isAuthenticated is true exactly when user is not
\* null; and the step in which login or fetchUser returns leaves isLoading
\* false.
StoreConsistent ==
    /\ [](isAuthenticated <=> user # NoUser)
    /\ [][(Completes("login") \/ Completes("fetchUser")) => ~isLoading']_vars

\* setUser has put a user into the store that fetchUser had emptied on
\* its failure
StoreConsistentWitness ==
    /\ isAuthenticated /\ user = TheUser /\ ~isLoading
    /\ st["fetchUser"] = "Failed" /\ st["login"] = "Unsent"
    /\ access_token = NoToken

\* C30: ProtectedRoute shows its children only when isLoading is false
\* and isAuthenticated is true; its redirect effect has called router.push
\* only with the component mounted, isLoading false and isAuthenticated
\* false; while isLoading is true there are neither children nor a
\* redirect.
ProtectedRouteGuards ==
    /\ [](/\ (hasMounted /\ Renders = "children")
                => (~isLoading /\ isAuthenticated)
          /\ routerPush => (hasMounted /\ ~isLoading /\ ~isAuthenticated)
          /\ isLoading => (Renders # "children" /\ ~routerPush))
    /\ [][(routerPush' /\ ~routerPush) =>
            (hasMounted' /\ ~isLoading' /\ ~isAuthenticated')]_vars

\* the mounted route has redirected after a logout that followed a
\* successful login
ProtectedRouteGuardsWitness ==
    /\ hasMounted /\ routerPush /\ Renders = "null"
    /\ st["login"] = "Succeeded" /\ st["logout"] \in Terminal

\* C28: in the detail view a toggle changes the liked flag and the like
\* count only: the step that settles it, a rollback included, leaves the
\* displayed comments as they were just before.
ToggleKeepsOtherFields ==
    [][pending'["detail"] # pending["detail"] => comments' = comments]_vars

\* a step of the toggle of surface s: the click, an answer, the renewal
ToggleStep(s) ==
    <<pending[s], st[s], trace[s]>>' # <<pending[s], st[s], trace[s]>>

\* the toggle call of surface s settles with a failure in this step
RollsBack(s) == pending'[s] < pending[s] /\ st'[s] = "Failed"

\* the fetch of page s completes in this step
FetchCompletes(s) == loadPc[s] = "served" /\ loadPc'[s] = "idle"

\* C23: with the post shown in a list card and in the detail view, a step
\* of the toggle of one surface leaves the visible {liked, count} and the
\* in-flight flag of the other as they were; a failed toggle puts its own
\* surface back to the snapshot that surface took at its click; and when a
\* fetch of a page completes with no toggle of its surface in flight, the
\* surface shows the fetched {liked, count}.
SurfacesReconcileAlone ==
    [][\A s \in ApiSurfaces :
          /\ ToggleStep(s) =>
                \A o \in ApiSurfaces \ {s} :
                    /\ isLiked'[o] = isLiked[o]
                    /\ likeCount'[o] = likeCount[o]
                    /\ isLiking'[o] = isLiking[o]
          /\ RollsBack(s) =>
                /\ isLiked'[s] = previous[s].liked
                /\ likeCount'[s] = previous[s].count
          /\ (FetchCompletes(s) /\ pending'[s] = 0) =>
                /\ isLiked'[s] = fetched[s].liked
                /\ likeCount'[s] = fetched[s].count]_vars

\* the card was liked and rolled back to its own snapshot while the detail
\* view's toggle succeeded; the list was then fetched again and the card
\* shows the server's state, which differs from what it was mounted with
\* at first
SurfacesReconcileAloneWitness ==
    /\ trace["card"] = ClickOrder \o <<"settled", "rollback", "unflag">>
    /\ succeeded["detail"] /\ ~succeeded["card"]
    /\ pending["card"] = 0 /\ pending["detail"] = 0
    /\ loadPc["card"] = "idle" /\ reloads >= 1
    /\ initial["card"] = ServerState
    /\ isLiked["card"] = serverLiked /\ likeCount["card"] = serverCount
    /\ isLiked["card"] # previous["card"].liked

====
